---- MODULE Spec2Model ----
(***************************************************************************)
(* A model of the generational slot store of src/lib.rs: Store<T>, Slot<T> *)
(* and Handle<T>.  Indices are 0-based as in the source; TLA+ sequences    *)
(* are 1-based, so slot i of the source is values[i + 1] here.             *)
(*                                                                         *)
(* A usize is kept as its eight big-endian bytes (the source builds the    *)
(* counter with usize::from_be_bytes and inspects it with to_be_bytes), so *)
(* the counter keeps its 64-bit width and its tag byte.                    *)
(***************************************************************************)
EXTENDS Integers, Sequences, FiniteSets, TLC

\* ------------------------------------------------------------------ bounds
\* The number of stores constructed.
MaxStores == 2

\* The number of insert and alloc calls, over all stores.
MaxAllocs == 2

\* The number of threads that call Store::new concurrently.
NumThreads == 2

\* The number of Store::new calls those threads make in all: past the 256
\* values of the instance counter.
MaxNews == 258

\* --------------------------------------------------------------- constants
ByteMax == 255
UsizeBytes == 8

VARIABLES INSTANCE_COUNT, stores, tags, issued, ret, pre, th, log

vars == <<INSTANCE_COUNT, stores, tags, issued, ret, pre, th, log>>

\* ------------------------------------------------------------------ values
\* Payloads of type T.  Store<T> puts no bound on T and never inspects,
\* compares or computes a payload, so two distinct values stand for T.
Vals == {1, 2}

\* Option<T>::None
None == 0 - 1

OptVals == Vals \cup {None}

\* The value argument of a write that did not take place.
NoWrite == 0 - 2

\* usize::from_be_bytes([c, 0, 0, 0, 0, 0, 0, 0])
FromBeBytes(c) == [k \in 1..UsizeBytes |-> IF k = 1 THEN c ELSE 0]

\* x.to_be_bytes()[0]
TopByte(x) == x[1]

\* x += 1 on a usize held as big-endian bytes: add with carry from the last
\* byte towards the first; a carry out of the first byte wraps.
RECURSIVE AddOneAt(_, _)
AddOneAt(x, k) ==
    IF k = 0 THEN x
    ELSE IF x[k] = ByteMax THEN AddOneAt([x EXCEPT ![k] = 0], k - 1)
    ELSE [x EXCEPT ![k] = x[k] + 1]

AddOneStuck(x) == x

AddOne(x) == AddOneAt(x, UsizeBytes)

\* ----------------------------------------------------------------- results
Ok(v) == [kind |-> "Ok", val |-> v]

Err(e) == [kind |-> e, val |-> None]

\* The unit result Ok(()) of check_handle.
OkUnit == Ok(None)

\* ------------------------------------------------------------------ Handle
HandleNew(index, alloc_idx) == [index |-> index, alloc_idx |-> alloc_idx]

\* The absence of a handle in the record of the last call.
NoHandle == [index |-> 0 - 1, alloc_idx |-> <<>>]

\* -------------------------------------------------------------------- Slot
SlotNewEmpty(alloc_idx) == [value |-> None, alloc_idx |-> alloc_idx]

SlotNewOccupied(val, alloc_idx) == [value |-> val, alloc_idx |-> alloc_idx]

\* Slot::take: std::mem::replace(&mut self.value, None)
SlotTakeKeeps(slot) == [slot |-> slot, old |-> slot.value]

SlotTake(slot) == [slot |-> [slot EXCEPT !.value = None], old |-> slot.value]

\* Slot::swap: std::mem::replace(&mut self.value, Some(val))
SlotSwapReturnsNew(slot, val) == [slot |-> [slot EXCEPT !.value = val], old |-> val]

SlotSwap(slot, val) == [slot |-> [slot EXCEPT !.value = val], old |-> slot.value]

\* ------------------------------------------------------------------- Store
\* Store::new, given the value c fetched from INSTANCE_COUNT.
StoreNew(c) == [values |-> <<>>, alloc_idx |-> FromBeBytes(c)]

\* Store::clear
StoreClearResets(st) ==
    [values |-> <<>>, alloc_idx |-> FromBeBytes(TopByte(st.alloc_idx))]

StoreClear(st) == [st EXCEPT !.values = <<>>]

\* Store::insert
StoreInsertNoIncr(st, value) ==
    [store |-> [st EXCEPT !.values =
                    Append(@, SlotNewOccupied(value, st.alloc_idx))],
     handle |-> HandleNew(Len(st.values), st.alloc_idx)]

StoreInsert(st, value) ==
    [store |-> [values |-> Append(st.values,
                                  SlotNewOccupied(value, st.alloc_idx)),
                alloc_idx |-> AddOne(st.alloc_idx)],
     handle |-> HandleNew(Len(st.values), st.alloc_idx)]

\* Store::alloc
StoreAllocOccupied(st) ==
    [store |-> [values |-> Append(st.values,
                                  SlotNewOccupied(1, st.alloc_idx)),
                alloc_idx |-> AddOne(st.alloc_idx)],
     handle |-> HandleNew(Len(st.values), st.alloc_idx)]

\* Store::alloc with the counter incremented before the slot is stamped.
StoreAllocStampsNext(st) ==
    [store |-> [values |-> Append(st.values,
                                  SlotNewEmpty(AddOne(st.alloc_idx))),
                alloc_idx |-> AddOne(st.alloc_idx)],
     handle |-> HandleNew(Len(st.values), AddOne(st.alloc_idx))]

StoreAlloc(st) ==
    [store |-> [values |-> Append(st.values, SlotNewEmpty(st.alloc_idx)),
                alloc_idx |-> AddOne(st.alloc_idx)],
     handle |-> HandleNew(Len(st.values), st.alloc_idx)]

\* Store::check_handle
CheckHandleSameStoreOnly(handle, stored_alloc_idx) ==
    IF stored_alloc_idx # handle.alloc_idx
    THEN Err("StoreMutated")
    ELSE OkUnit

CheckHandleTagOnly(handle, stored_alloc_idx) ==
    IF TopByte(stored_alloc_idx) # TopByte(handle.alloc_idx)
    THEN Err("WrongStore")
    ELSE OkUnit

\* check_handle with the comparison of the tag bytes inverted.
CheckHandleTagEq(handle, stored_alloc_idx) ==
    IF stored_alloc_idx # handle.alloc_idx
    THEN IF TopByte(stored_alloc_idx) = TopByte(handle.alloc_idx)
         THEN Err("WrongStore")
         ELSE Err("StoreMutated")
    ELSE OkUnit

CheckHandle(handle, stored_alloc_idx) ==
    IF stored_alloc_idx # handle.alloc_idx
    THEN IF TopByte(stored_alloc_idx) # TopByte(handle.alloc_idx)
         THEN Err("WrongStore")
         ELSE Err("StoreMutated")
    ELSE OkUnit

\* self.values.get(handle.index) is Some(slot)
InBounds(st, handle) == handle.index < Len(st.values)

SlotAt(st, handle) == st.values[handle.index + 1]

\* Store::set with the swap made before the handle is checked.
StoreSetStoresFirst(st, handle, value) ==
    IF InBounds(st, handle)
    THEN LET chk == CheckHandle(handle, SlotAt(st, handle).alloc_idx)
             sw == SlotSwap(SlotAt(st, handle), value)
             written == [st EXCEPT !.values[handle.index + 1] = sw.slot]
         IN  IF chk.kind # "Ok"
             THEN [store |-> written, res |-> chk]
             ELSE [store |-> written, res |-> Ok(sw.old)]
    ELSE LET chk == CheckHandle(handle, st.alloc_idx)
         IN  IF chk.kind # "Ok"
             THEN [store |-> st, res |-> chk]
             ELSE [store |-> st, res |-> Err("StoreMutated")]

\* Store::set
StoreSet(st, handle, value) ==
    IF InBounds(st, handle)
    THEN LET chk == CheckHandle(handle, SlotAt(st, handle).alloc_idx)
             sw == SlotSwap(SlotAt(st, handle), value)
         IN  IF chk.kind # "Ok"
             THEN [store |-> st, res |-> chk]
             ELSE [store |-> [st EXCEPT !.values[handle.index + 1] = sw.slot],
                   res |-> Ok(sw.old)]
    ELSE LET chk == CheckHandle(handle, st.alloc_idx)
         IN  IF chk.kind # "Ok"
             THEN [store |-> st, res |-> chk]
             ELSE [store |-> st, res |-> Err("StoreMutated")]

\* Store::take
StoreTakeRemoves(st, handle) ==
    IF ~InBounds(st, handle)
    THEN [store |-> st, res |-> Err("StoreMutated")]
    ELSE LET chk == CheckHandle(handle, SlotAt(st, handle).alloc_idx)
             old == SlotAt(st, handle).value
         IN  IF chk.kind # "Ok"
             THEN [store |-> st, res |-> chk]
             ELSE [store |-> [st EXCEPT !.values =
                                 SubSeq(@, 1, handle.index)
                                   \o SubSeq(@, handle.index + 2, Len(@))],
                   res |-> IF old = None THEN Err("SlotEmpty") ELSE Ok(old)]

\* Store::take with the slot emptied before the handle is checked.
StoreTakeEmptyFirst(st, handle) ==
    IF ~InBounds(st, handle)
    THEN [store |-> st, res |-> Err("StoreMutated")]
    ELSE LET chk == CheckHandle(handle, SlotAt(st, handle).alloc_idx)
             tk == SlotTake(SlotAt(st, handle))
         IN  IF tk.old = None
             THEN [store |-> st, res |-> Err("SlotEmpty")]
             ELSE IF chk.kind # "Ok"
             THEN [store |-> [st EXCEPT !.values[handle.index + 1] = tk.slot],
                   res |-> chk]
             ELSE [store |-> [st EXCEPT !.values[handle.index + 1] = tk.slot],
                   res |-> Ok(tk.old)]

StoreTake(st, handle) ==
    IF ~InBounds(st, handle)
    THEN [store |-> st, res |-> Err("StoreMutated")]
    ELSE LET chk == CheckHandle(handle, SlotAt(st, handle).alloc_idx)
             tk == SlotTake(SlotAt(st, handle))
         IN  IF chk.kind # "Ok"
             THEN [store |-> st, res |-> chk]
             ELSE [store |-> [st EXCEPT !.values[handle.index + 1] = tk.slot],
                   res |-> IF tk.old = None THEN Err("SlotEmpty")
                                            ELSE Ok(tk.old)]

\* Store::get taking a handle that agrees with the live counter for a handle
\* of a slot not yet read.
StoreGetTrustsCounter(st, handle) ==
    IF InBounds(st, handle)
    THEN LET chk == CheckHandle(handle, SlotAt(st, handle).alloc_idx)
         IN  IF chk.kind # "Ok" THEN chk
             ELSE IF SlotAt(st, handle).value = None THEN Err("SlotEmpty")
             ELSE Ok(SlotAt(st, handle).value)
    ELSE LET chk == CheckHandle(handle, st.alloc_idx)
         IN  IF chk.kind # "Ok" THEN chk ELSE Err("SlotEmpty")

\* Store::get
StoreGet(st, handle) ==
    IF InBounds(st, handle)
    THEN LET chk == CheckHandle(handle, SlotAt(st, handle).alloc_idx)
         IN  IF chk.kind # "Ok" THEN chk
             ELSE IF SlotAt(st, handle).value = None THEN Err("SlotEmpty")
             ELSE Ok(SlotAt(st, handle).value)
    ELSE LET chk == CheckHandle(handle, st.alloc_idx)
         IN  IF chk.kind # "Ok" THEN chk ELSE Err("StoreMutated")

\* Store::get_mut: the result; Ok(v) stands for a &mut T to a payload v.
StoreGetMut(st, handle) ==
    IF InBounds(st, handle)
    THEN LET chk == CheckHandle(handle, SlotAt(st, handle).alloc_idx)
         IN  IF chk.kind # "Ok" THEN chk
             ELSE IF SlotAt(st, handle).value = None THEN Err("SlotEmpty")
             ELSE Ok(SlotAt(st, handle).value)
    ELSE LET chk == CheckHandle(handle, st.alloc_idx)
         IN  IF chk.kind # "Ok" THEN chk ELSE Err("StoreMutated")

\* An assignment through a reference into the slot at handle.index.
WriteSlot(st, handle, w) == [st EXCEPT !.values[handle.index + 1].value = w]

\* Index / IndexMut with the stamp of the slot compared to the handle's, an
\* access that refuses a handle get would refuse.
StoreIndexValidated(st, handle) ==
    IF InBounds(st, handle)
         /\ SlotAt(st, handle).alloc_idx = handle.alloc_idx
    THEN Ok(SlotAt(st, handle).value)
    ELSE Err("Panic")

\* Index::index: &self.values[index.index].value, a panic out of bounds.
StoreIndex(st, handle) ==
    IF InBounds(st, handle) THEN Ok(SlotAt(st, handle).value)
    ELSE Err("Panic")

\* Store::get_unchecked: self.values.get_unchecked(handle.index).as_ref(),
\* under the caller's obligation that handle.index is in bounds.
StoreGetUnchecked(st, handle) == Ok(SlotAt(st, handle).value)

\* ------------------------------------------------------------ bookkeeping
\* issued records every handle a store has returned: the store that issued
\* it (owner), the handle (h), and whether that store was cleared since
\* (stale).  Handles are Copy and their fields private, so the handles a
\* caller can present are exactly the issued ones.  tags[s] records the
\* value store s fetched from INSTANCE_COUNT when it was constructed.
StoreIds == 1..Len(stores)

Handles == {e.h : e \in issued}

\* ret is the record of the last call: operation, store, handle, value
\* argument (None when there is none) and result; pre is what stores was when
\* that call was made.
Call(op, s, h, v, res) == [op |-> op, s |-> s, h |-> h, v |-> v, res |-> res]

\* th[t] is where thread t stands in a Store::new call: outside one (idle),
\* or past the fetch_add with the fetched value c in hand (fetched); k tells
\* which fetch of the process that was.  log is the sequence of values the
\* fetch_add calls of the threads returned, in the order of INSTANCE_COUNT's
\* modifications.
Threads == 1..NumThreads

Idle == [pc |-> "idle", c |-> None, k |-> 0]

\* AtomicU8::fetch_add(1, Ordering::Relaxed): one read-modify-write, which
\* returns the previous value and wraps.
FetchAdd(cnt) == [old |-> cnt, new |-> (cnt + 1) % (ByteMax + 1)]

\* ------------------------------------------------------------------- state
Init ==
    /\ INSTANCE_COUNT = 0
    /\ stores = <<>>
    /\ tags = <<>>
    /\ issued = {}
    /\ ret = Call("init", 0, NoHandle, None, OkUnit)
    /\ pre = <<>>
    /\ th = [t \in Threads |-> Idle]
    /\ log = <<>>

\* Store::new: one fetch_add(1) on the AtomicU8, which wraps.
New ==
    /\ Len(stores) < MaxStores
    /\ stores' = Append(stores, StoreNew(INSTANCE_COUNT))
    /\ tags' = Append(tags, INSTANCE_COUNT)
    /\ INSTANCE_COUNT' = (INSTANCE_COUNT + 1) % (ByteMax + 1)
    /\ ret' = Call("new", Len(stores) + 1, NoHandle, None, OkUnit)
    /\ UNCHANGED issued
    /\ pre' = stores
    /\ UNCHANGED <<th, log>>

Clear(s) ==
    /\ stores' = [stores EXCEPT ![s] = StoreClear(stores[s])]
    /\ issued' = {IF e.owner = s THEN [e EXCEPT !.stale = TRUE] ELSE e
                    : e \in issued}
    /\ ret' = Call("clear", s, NoHandle, None, OkUnit)
    /\ UNCHANGED <<INSTANCE_COUNT, tags>>
    /\ pre' = stores
    /\ UNCHANGED <<th, log>>

Insert(s, v) ==
    /\ Cardinality(issued) < MaxAllocs
    /\ LET r == StoreInsert(stores[s], v)
       IN  /\ stores' = [stores EXCEPT ![s] = r.store]
           /\ issued' = issued \cup {[owner |-> s, h |-> r.handle,
                                      stale |-> FALSE]}
           /\ ret' = Call("insert", s, r.handle, v, OkUnit)
    /\ UNCHANGED <<INSTANCE_COUNT, tags>>
    /\ pre' = stores
    /\ UNCHANGED <<th, log>>

Alloc(s) ==
    /\ Cardinality(issued) < MaxAllocs
    /\ LET r == StoreAlloc(stores[s])
       IN  /\ stores' = [stores EXCEPT ![s] = r.store]
           /\ issued' = issued \cup {[owner |-> s, h |-> r.handle,
                                      stale |-> FALSE]}
           /\ ret' = Call("alloc", s, r.handle, None, OkUnit)
    /\ UNCHANGED <<INSTANCE_COUNT, tags>>
    /\ pre' = stores
    /\ UNCHANGED <<th, log>>

Set(s, h, v) ==
    /\ LET r == StoreSet(stores[s], h, v)
       IN  /\ stores' = [stores EXCEPT ![s] = r.store]
           /\ ret' = Call("set", s, h, v, r.res)
    /\ UNCHANGED <<INSTANCE_COUNT, tags, issued>>
    /\ pre' = stores
    /\ UNCHANGED <<th, log>>

Take(s, h) ==
    /\ LET r == StoreTake(stores[s], h)
       IN  /\ stores' = [stores EXCEPT ![s] = r.store]
           /\ ret' = Call("take", s, h, None, r.res)
    /\ UNCHANGED <<INSTANCE_COUNT, tags, issued>>
    /\ pre' = stores
    /\ UNCHANGED <<th, log>>

Get(s, h) ==
    /\ ret' = Call("get", s, h, None, StoreGet(stores[s], h))
    /\ UNCHANGED <<INSTANCE_COUNT, stores, tags, issued>>
    /\ pre' = stores
    /\ UNCHANGED <<th, log>>

\* get_mut and the caller's use of the &mut T it returns: *r = w (w equal to
\* the payload already there is a borrow that writes nothing new).  Without
\* a reference there is nothing to write: w is None.
GetMut(s, h, w) ==
    /\ LET r == StoreGetMut(stores[s], h)
       IN  /\ IF r.kind = "Ok" THEN w \in Vals ELSE w = None
           /\ stores' = IF r.kind = "Ok"
                        THEN [stores EXCEPT ![s] = WriteSlot(stores[s], h, w)]
                        ELSE stores
           /\ ret' = Call("get_mut", s, h, w, r)
    /\ UNCHANGED <<INSTANCE_COUNT, tags, issued>>
    /\ pre' = stores
    /\ UNCHANGED <<th, log>>

\* &store[h]
Index(s, h) ==
    /\ ret' = Call("index", s, h, None, StoreIndex(stores[s], h))
    /\ UNCHANGED <<INSTANCE_COUNT, stores, tags, issued>>
    /\ pre' = stores
    /\ UNCHANGED <<th, log>>

\* store[h] = w, with w an Option<T>; index_mut panics out of bounds, before
\* anything is assigned.  NoWrite stands for the assignment that never ran.
IndexMut(s, h, w) ==
    /\ LET r == StoreIndex(stores[s], h)
       IN  /\ IF r.kind = "Ok" THEN w \in OptVals ELSE w = NoWrite
           /\ stores' = IF r.kind = "Ok"
                        THEN [stores EXCEPT ![s] = WriteSlot(stores[s], h, w)]
                        ELSE stores
           /\ ret' = Call("index_mut", s, h, w, r)
    /\ UNCHANGED <<INSTANCE_COUNT, tags, issued>>
    /\ pre' = stores
    /\ UNCHANGED <<th, log>>

\* unsafe get_unchecked, called as its contract demands: index in bounds.
GetUnchecked(s, h) ==
    /\ InBounds(stores[s], h)
    /\ ret' = Call("get_unchecked", s, h, None, StoreGetUnchecked(stores[s], h))
    /\ UNCHANGED <<INSTANCE_COUNT, stores, tags, issued>>
    /\ pre' = stores
    /\ UNCHANGED <<th, log>>

\* unsafe get_unchecked_mut, called as its contract demands, and the
\* caller's use of the Option<&mut T> it returns: *r = w when it is Some.
GetUncheckedMut(s, h, w) ==
    /\ InBounds(stores[s], h)
    /\ LET r == StoreGetUnchecked(stores[s], h)
       IN  /\ IF r.val # None THEN w \in Vals ELSE w = None
           /\ stores' = IF r.val # None
                        THEN [stores EXCEPT ![s] = WriteSlot(stores[s], h, w)]
                        ELSE stores
           /\ ret' = Call("get_unchecked_mut", s, h, w, r)
    /\ UNCHANGED <<INSTANCE_COUNT, tags, issued>>
    /\ pre' = stores
    /\ UNCHANGED <<th, log>>

Next ==
    \/ New
    \/ \E s \in StoreIds : Clear(s)
    \/ \E s \in StoreIds, v \in Vals : Insert(s, v)
    \/ \E s \in StoreIds : Alloc(s)
    \/ \E s \in StoreIds, h \in Handles, v \in Vals : Set(s, h, v)
    \/ \E s \in StoreIds, h \in Handles : Take(s, h)
    \/ \E s \in StoreIds, h \in Handles : Get(s, h)
    \/ \E s \in StoreIds, h \in Handles, w \in OptVals : GetMut(s, h, w)
    \/ \E s \in StoreIds, h \in Handles : Index(s, h)
    \/ \E s \in StoreIds, h \in Handles, w \in OptVals \cup {NoWrite} :
          IndexMut(s, h, w)
    \/ \E s \in StoreIds, h \in Handles : GetUnchecked(s, h)
    \/ \E s \in StoreIds, h \in Handles, w \in OptVals :
          GetUncheckedMut(s, h, w)

Spec == Init /\ [][Next]_vars

\* ------------------------------------------------- instance tags that wrap
\* Store::new for a store the program makes no call on: the fetch_add is all
\* that is left of it.  Such a construction touches INSTANCE_COUNT only and
\* commutes with every call on a store, so the runs below make them while
\* the one store kept so far has issued no handle.
NewDropped ==
    /\ Len(stores) = 1
    /\ issued = {}
    /\ INSTANCE_COUNT' = (INSTANCE_COUNT + 1) % (ByteMax + 1)
    /\ ret' = Call("new", 0, NoHandle, None, OkUnit)
    /\ UNCHANGED <<stores, tags, issued>>
    /\ pre' = stores
    /\ UNCHANGED <<th, log>>

\* INSTANCE_COUNT stands at the tag of a store the program keeps (the next
\* store would collide with it) or right behind it (it would not).
AtKeptTag ==
    \/ Len(stores) = 0
    \/ \E i \in StoreIds :
          INSTANCE_COUNT \in {tags[i], (tags[i] + 1) % (ByteMax + 1)}

\* The program constructs the stores it keeps, and calls them, only while
\* AtKeptTag: between two such periods it constructs and drops stores.
NextWrap ==
    \/ AtKeptTag /\ New
    \/ NewDropped
    \/ AtKeptTag /\ \E s \in StoreIds : Clear(s)
    \/ AtKeptTag /\ \E s \in StoreIds, v \in Vals : Insert(s, v)
    \/ AtKeptTag /\ \E s \in StoreIds : Alloc(s)
    \/ AtKeptTag /\ \E s \in StoreIds, h \in Handles, v \in Vals : Set(s, h, v)
    \/ AtKeptTag /\ \E s \in StoreIds, h \in Handles : Take(s, h)
    \/ AtKeptTag /\ \E s \in StoreIds, h \in Handles : Get(s, h)
    \/ AtKeptTag /\ \E s \in StoreIds, h \in Handles, w \in OptVals : GetMut(s, h, w)
    \/ AtKeptTag /\ \E s \in StoreIds, h \in Handles : Index(s, h)
    \/ AtKeptTag /\ \E s \in StoreIds, h \in Handles, w \in OptVals \cup {NoWrite} :
             IndexMut(s, h, w)
    \/ AtKeptTag /\ \E s \in StoreIds, h \in Handles : GetUnchecked(s, h)
    \/ AtKeptTag /\ \E s \in StoreIds, h \in Handles, w \in OptVals :
             GetUncheckedMut(s, h, w)

\* The runs of the program in which stores are constructed and dropped
\* between the constructions of the stores it keeps, so that INSTANCE_COUNT
\* wraps and a later store receives the tag of an earlier one.
SpecWrap == Init /\ [][NextWrap]_vars

\* ------------------------------------------- a store late in its lifetime
\* The usize with top byte c and low 56 bits 2^56 - 1 - below.
NearCarry(c, below) ==
    [k \in 1..UsizeBytes |->
        IF k = 1 THEN c ELSE IF k = UsizeBytes THEN ByteMax - below
        ELSE ByteMax]

\* The first store of the process after 2^56 - 2 calls of alloc(), each
\* followed by clear(): insert, alloc and clear have no other precondition
\* than the store, so the program gets here by calling them.  The handles of
\* those calls were dropped.  The last call was the clear().
InitCarry ==
    /\ INSTANCE_COUNT = 1
    /\ stores = <<[values |-> <<>>, alloc_idx |-> NearCarry(0, 1)]>>
    /\ tags = <<0>>
    /\ issued = {}
    /\ ret = Call("clear", 1, NoHandle, None, OkUnit)
    /\ pre = <<[values |-> <<SlotNewEmpty(NearCarry(0, 2))>>,
                alloc_idx |-> NearCarry(0, 1)]>>
    /\ th = [t \in Threads |-> Idle]
    /\ log = <<>>

\* The calls of the program from there on.
SpecCarry == InitCarry /\ [][Next]_vars

\* ------------------------------------------------ concurrent construction
\* Thread t enters Store::new and executes the fetch_add.  A load of the
\* counter followed by a separate store of the load plus one: a thread that
\* loaded before another thread's increment stores the same value again.
ThreadFetchLostUpdate(t) ==
    /\ th[t].pc = "idle"
    /\ Len(log) < MaxNews
    /\ LET loaded == IF \E u \in Threads : th[u].pc = "fetched"
                     THEN (INSTANCE_COUNT + ByteMax) % (ByteMax + 1)
                     ELSE INSTANCE_COUNT
       IN  /\ INSTANCE_COUNT' = (loaded + 1) % (ByteMax + 1)
           /\ th' = [th EXCEPT ![t] = [pc |-> "fetched", c |-> loaded,
                                        k |-> Len(log) + 1]]
           /\ log' = Append(log, loaded)
    /\ UNCHANGED <<stores, tags, issued, ret, pre>>

ThreadFetch(t) ==
    /\ th[t].pc = "idle"
    /\ Len(log) < MaxNews
    /\ LET fa == FetchAdd(INSTANCE_COUNT)
       IN  /\ INSTANCE_COUNT' = fa.new
           /\ th' = [th EXCEPT ![t] = [pc |-> "fetched", c |-> fa.old,
                                        k |-> Len(log) + 1]]
           /\ log' = Append(log, fa.old)
    /\ UNCHANGED <<stores, tags, issued, ret, pre>>

\* Thread t builds the Store from the value it fetched and returns it; the
\* store is the thread's own and is not called here.
ThreadBuild(t) ==
    /\ th[t].pc = "fetched"
    /\ ret' = Call("new", 0, NoHandle, None, Ok(StoreNew(th[t].c)))
    /\ th' = [th EXCEPT ![t] = Idle]
    /\ pre' = stores
    /\ UNCHANGED <<INSTANCE_COUNT, stores, tags, issued, log>>

NextNew ==
    \/ \E t \in Threads : ThreadFetch(t)
    \/ \E t \in Threads : ThreadBuild(t)

\* Threads that construct stores, in every interleaving of their steps.
SpecNew == Init /\ [][NextNew]_vars

\* ------------------------------------------------------------------ claims
\* The validity of a handle for a store: its index is within the slot
\* sequence and the slot there carries the handle's stamp.
Valid(st, h) == InBounds(st, h) /\ SlotAt(st, h).alloc_idx = h.alloc_idx

Passes(res) == res.kind \in {"Ok", "SlotEmpty"}

\* C1: every handle issued by a store before a clear() of that store is
\* rejected with StoreMutated by get, get_mut, set and take of that store in
\* every later state, whether its index is out of bounds or occupied again.
C1_ClearInvalidatesPermanently ==
    \A e \in issued :
        e.stale =>
            LET st == stores[e.owner]
            IN  /\ StoreGet(st, e.h) = Err("StoreMutated")
                /\ StoreGetMut(st, e.h) = Err("StoreMutated")
                /\ StoreTake(st, e.h).res = Err("StoreMutated")
                /\ \A v \in Vals : StoreSet(st, e.h, v).res = Err("StoreMutated")

\* C1 witness: get was called with a stale handle whose index is occupied
\* again by a later allocation, and returned StoreMutated.
C1_Witness ==
    \E e \in issued :
        /\ e.stale
        /\ InBounds(stores[e.owner], e.h)
        /\ ret = Call("get", e.owner, e.h, None, Err("StoreMutated"))

\* The last call was op on store s with handle h.
Step(op, s, h) == ret.op = op /\ ret.s = s /\ ret.h = h

\* The stores that existed when the last call was made.
PreIds == 1..Len(pre)

\* The last call ends the period over which C2 speaks of handle h of store
\* s: a clear() of s, a set, take, get_mut or indexed write presented with
\* h, or a write that bypasses validation (an indexed write or
\* get_unchecked_mut) at position h.index of s.
Disturbs(s, h) ==
    \/ ret.op = "clear" /\ ret.s = s
    \/ ret.op \in {"set", "take", "get_mut", "index_mut"}
         /\ ret.s = s /\ ret.h = h
    \/ ret.op \in {"index_mut", "get_unchecked_mut"}
         /\ ret.s = s /\ ret.h.index = h.index

\* C2: insert(v) returns a handle h with get(h) = Ok(v), and get(h) = Ok(v)
\* is kept by every later call (insert, alloc, set/take/get_mut with other
\* handles, calls on other stores) other than a clear() of the store and a
\* set, take, get_mut or indexed write on h itself.
C2_InsertGetRoundTrip ==
    /\ ret.op = "insert" => StoreGet(stores[ret.s], ret.h) = Ok(ret.v)
    /\ \A e \in issued : \A v \in Vals :
         (/\ ~e.stale
          /\ e.owner \in PreIds
          /\ StoreGet(pre[e.owner], e.h) = Ok(v)
          /\ ~Disturbs(e.owner, e.h))
             => StoreGet(stores[e.owner], e.h) = Ok(v)

\* C2 witness: after insert(v) returned the handle of the first slot, a
\* later insert was made and get with the first handle still returned Ok.
C2_Witness ==
    \E e \in issued :
        /\ ~e.stale /\ e.h.index = 0
        /\ Len(stores[e.owner].values) >= 2
        /\ ret.op = "get" /\ ret.s = e.owner /\ ret.h = e.h
        /\ ret.res.kind = "Ok"

\* C3: a handle issued by a store whose instance tag differs from that of
\* store b is rejected by b's get, get_mut and set with WrongStore, whatever
\* b holds, and b is left unchanged.
C3_CrossStoreRejection ==
    \A e \in issued : \A b \in StoreIds :
        tags[b] # tags[e.owner] =>
            /\ StoreGet(stores[b], e.h) = Err("WrongStore")
            /\ StoreGetMut(stores[b], e.h) = Err("WrongStore")
            /\ \A v \in Vals :
                 StoreSet(stores[b], e.h, v)
                   = [store |-> stores[b], res |-> Err("WrongStore")]

\* C3 witness: set was called on a store with a handle of another store whose
\* index is in bounds there, and returned WrongStore.
C3_Witness ==
    \E e \in issued :
        /\ ret.op = "set" /\ ret.h = e.h /\ ret.s # e.owner
        /\ tags[ret.s] # tags[e.owner]
        /\ InBounds(stores[ret.s], e.h)
        /\ ret.res = Err("WrongStore")

\* C4: a presented handle passes validation (get, get_mut and take give Ok or
\* SlotEmpty) exactly when its index is in bounds and the slot's stamp equals
\* its stamp, and every handle a store issued since its last clear() is valid
\* for it: get, get_mut and take give Ok or SlotEmpty and set gives Ok.
C4_ValidUntilClear ==
    /\ \A s \in StoreIds : \A h \in Handles :
         /\ Passes(StoreGet(stores[s], h)) <=> Valid(stores[s], h)
         /\ Passes(StoreGetMut(stores[s], h)) <=> Valid(stores[s], h)
         /\ Passes(StoreTake(stores[s], h).res) <=> Valid(stores[s], h)
         /\ \A v \in Vals :
              StoreSet(stores[s], h, v).res.kind = "Ok" <=> Valid(stores[s], h)
    /\ \A e \in issued :
         ~e.stale =>
            LET st == stores[e.owner]
            IN  /\ Valid(st, e.h)
                /\ Passes(StoreGet(st, e.h))
                /\ Passes(StoreGetMut(st, e.h))
                /\ Passes(StoreTake(st, e.h).res)
                /\ \A v \in Vals : StoreSet(st, e.h, v).res.kind = "Ok"

\* C4 witness: take emptied the slot of a handle which is not the last one
\* issued, and the handle is still valid: get gives SlotEmpty.
C4_Witness ==
    \E e \in issued :
        /\ ~e.stale
        /\ ret.op = "take" /\ ret.s = e.owner /\ ret.h = e.h
        /\ ret.res.kind = "Ok"
        /\ Len(stores[e.owner].values) > e.h.index + 1
        /\ StoreGet(stores[e.owner], e.h) = Err("SlotEmpty")

\* A valid handle h of store s whose slot was empty before the last call
\* has an empty slot after it, unless that call was a clear() of s (h is
\* then no longer valid), a set with h, or an indexed write at position
\* h.index (which bypasses validation).
EmptyStaysEmpty(s, h) ==
    (/\ Valid(pre[s], h)
     /\ SlotAt(pre[s], h).value = None
     /\ ~(ret.op = "clear" /\ ret.s = s)
     /\ ~Step("set", s, h)
     /\ ~(ret.op = "index_mut" /\ ret.s = s /\ ret.h.index = h.index))
        => /\ Valid(stores[s], h)
           /\ StoreGet(stores[s], h) = Err("SlotEmpty")
           /\ StoreTake(stores[s], h).res = Err("SlotEmpty")

C7_SetReturnsPrevious ==
    \A s \in PreIds : \A h \in Handles :
        (Valid(pre[s], h) /\ Step("set", s, h))
            => /\ ret.res = Ok(SlotAt(pre[s], h).value)
               /\ StoreGet(stores[s], h) = Ok(ret.v)
               /\ Valid(stores[s], h)
               /\ SlotAt(stores[s], h).alloc_idx = SlotAt(pre[s], h).alloc_idx

\* C7 witness: a set replaced a payload v1 by a different v2 and returned
\* Ok(Some(v1)).
C7_Witness ==
    /\ ret.op = "set"
    /\ ret.res.kind = "Ok"
    /\ ret.res.val \in Vals
    /\ ret.res.val # ret.v
    /\ StoreGet(stores[ret.s], ret.h) = Ok(ret.v)

\* C8: take with a handle whose index is out of bounds judges the handle
\* against the store's live counter: WrongStore if the top bytes differ,
\* StoreMutated otherwise, which is what get returns in that state.
C8_TakeFollowsValidation ==
    (ret.op = "take" /\ ~InBounds(stores[ret.s], ret.h))
        => /\ ret.res = IF TopByte(ret.h.alloc_idx)
                             # TopByte(stores[ret.s].alloc_idx)
                        THEN Err("WrongStore")
                        ELSE Err("StoreMutated")
           /\ ret.res = StoreGet(stores[ret.s], ret.h)

\* The order of two usize values held as big-endian bytes.
Less(a, b) ==
    \E k \in 1..UsizeBytes :
        /\ \A j \in 1..(k - 1) : a[j] = b[j]
        /\ a[k] < b[k]

\* b = a + 1 without overflow, for usize values held as big-endian bytes.
IsSucc(a, b) ==
    \E k \in 1..UsizeBytes :
        /\ \A j \in 1..(k - 1) : a[j] = b[j]
        /\ b[k] = a[k] + 1
        /\ \A j \in (k + 1)..UsizeBytes : a[j] = ByteMax /\ b[j] = 0

\* C9: over every call, a store's length decreases only in clear(), which
\* makes it 0, and grows only in insert and alloc, by exactly 1; alloc_idx
\* grows by exactly 1 in insert and alloc, is left unchanged by every other
\* call (clear, set, take, get, get_mut among them) and never decreases.
C9_StoreMonotonicity ==
    \A s \in PreIds :
        LET len0 == Len(pre[s].values)
            len1 == Len(stores[s].values)
            idx0 == pre[s].alloc_idx
            idx1 == stores[s].alloc_idx
            allocates == ret.op \in {"insert", "alloc"} /\ ret.s = s
        IN  /\ len1 < len0 => (ret.op = "clear" /\ ret.s = s)
            /\ (ret.op = "clear" /\ ret.s = s) => (len1 = 0 /\ idx1 = idx0)
            /\ allocates => (len1 = len0 + 1 /\ IsSucc(idx0, idx1))
            /\ ~allocates => (len1 <= len0 /\ idx1 = idx0)
            /\ ~Less(idx1, idx0)

\* C9 witness: a clear() emptied a store whose counter had advanced, and the
\* counter kept its value.
C9_Witness ==
    /\ ret.op = "clear"
    /\ Len(stores[ret.s].values) = 0
    /\ Less(FromBeBytes(tags[ret.s]), stores[ret.s].alloc_idx)

\* No two handles issued by one store carry the same stamp, and two of them
\* with the same index are not both from after the store's last clear().
UniqueStamps ==
    \A e1 \in issued : \A e2 \in issued :
        (e1.owner = e2.owner /\ e1 # e2)
            => /\ e1.h.alloc_idx # e2.h.alloc_idx
               /\ e1.h.index = e2.h.index => (e1.stale \/ e2.stale)

\* C10: the handle insert or alloc returns carries a stamp strictly larger
\* than the stamp of every handle the store issued before, across clear()
\* calls too, and its index was issued before only to handles from before a
\* clear(); so no two handles of one store share a stamp.
C10_HandleUniqueness ==
    /\ ret.op \in {"insert", "alloc"}
         => \A e \in issued :
               (e.owner = ret.s /\ e # [owner |-> ret.s, h |-> ret.h,
                                        stale |-> FALSE])
                  => /\ Less(e.h.alloc_idx, ret.h.alloc_idx)
                     /\ e.h.index = ret.h.index => e.stale
    /\ UniqueStamps

\* C10 witness: an index was issued again after a clear(), with a larger
\* stamp.
C10_Witness ==
    \E e1 \in issued : \E e2 \in issued :
        /\ e1.owner = e2.owner
        /\ e1.h.index = e2.h.index
        /\ e1.stale /\ ~e2.stale
        /\ Less(e1.h.alloc_idx, e2.h.alloc_idx)
        /\ ret.op \in {"insert", "alloc"} /\ ret.s = e2.owner /\ ret.h = e2.h

\* C11: store[h], read or written, reaches the optional payload of the slot
\* at h.index whatever the stamps are: a read returns that payload, a write
\* replaces it and nothing else, also for a stale handle whose index is in
\* range again, which get rejects with StoreMutated; with h.index at or past
\* the length the access panics and the store is unchanged; after a write
\* through store[h] with a valid h, get(h) gives what was written.
C11_IndexBypassesValidation ==
    /\ ret.op \in {"index", "index_mut"} =>
         LET st == pre[ret.s]
         IN  IF InBounds(st, ret.h)
             THEN ret.res = Ok(SlotAt(st, ret.h).value)
             ELSE ret.res = Err("Panic") /\ stores = pre
    /\ ret.op = "index" => stores = pre
    /\ (ret.op = "index_mut" /\ ret.res.kind = "Ok") =>
         /\ stores = [pre EXCEPT ![ret.s] = WriteSlot(pre[ret.s], ret.h, ret.v)]
         /\ SlotAt(stores[ret.s], ret.h).value = ret.v
         /\ Valid(stores[ret.s], ret.h) =>
              StoreGet(stores[ret.s], ret.h)
                = (IF ret.v = None THEN Err("SlotEmpty") ELSE Ok(ret.v))
    /\ \A e \in issued :
         (e.stale /\ InBounds(stores[e.owner], e.h)) =>
            /\ StoreGet(stores[e.owner], e.h) = Err("StoreMutated")
            /\ StoreIndex(stores[e.owner], e.h)
                 = Ok(SlotAt(stores[e.owner], e.h).value)

\* C11 witness: store[h] = Some(v) was made with a stale handle whose index
\* is held by a later allocation; the new occupant's payload became v while
\* get with the stale handle gives StoreMutated.
C11_Witness ==
    \E e \in issued : \E f \in issued :
        /\ e.stale /\ ~f.stale
        /\ f.owner = e.owner /\ f.h.index = e.h.index
        /\ ret.op = "index_mut" /\ ret.s = e.owner /\ ret.h = e.h
        /\ ret.v \in Vals
        /\ ret.res.kind = "Ok" /\ ret.res.val # ret.v
        /\ StoreGet(stores[e.owner], f.h) = Ok(ret.v)
        /\ StoreGet(stores[e.owner], e.h) = Err("StoreMutated")

\* The result is one of the two validation errors.
Rejected(res) == res.kind \in {"StoreMutated", "WrongStore"}

\* C13: get, get_mut and take give SlotEmpty exactly when the handle is valid
\* (index in bounds, stamps equal) and the slot holds no value; with an
\* invalid handle they give StoreMutated or WrongStore, also when the slot at
\* its index is empty, and take leaves the store as it was.
C13_SlotEmptyMeansValidEmpty ==
    /\ \A s \in StoreIds : \A h \in Handles :
         LET st == stores[s]
             validEmpty == Valid(st, h) /\ SlotAt(st, h).value = None
         IN  /\ StoreGet(st, h) = Err("SlotEmpty") <=> validEmpty
             /\ StoreGetMut(st, h) = Err("SlotEmpty") <=> validEmpty
             /\ StoreTake(st, h).res = Err("SlotEmpty") <=> validEmpty
             /\ ~Valid(st, h) =>
                  /\ Rejected(StoreGet(st, h))
                  /\ Rejected(StoreGetMut(st, h))
                  /\ Rejected(StoreTake(st, h).res)
                  /\ StoreTake(st, h).store = st
    /\ ret.op \in {"get", "get_mut", "take"} =>
         LET st == pre[ret.s]
         IN  /\ ret.res = Err("SlotEmpty")
                  <=> (Valid(st, ret.h) /\ SlotAt(st, ret.h).value = None)
             /\ ~Valid(st, ret.h) => (Rejected(ret.res) /\ stores = pre)

\* C13 witness: take was called with a stale handle whose index holds, after
\* a clear() and an alloc(), an empty slot; it returned StoreMutated and the
\* slot is as it was.
C13_Witness ==
    \E e \in issued :
        /\ e.stale
        /\ ret = Call("take", e.owner, e.h, None, Err("StoreMutated"))
        /\ InBounds(pre[e.owner], e.h)
        /\ SlotAt(pre[e.owner], e.h).value = None
        /\ stores = pre

\* Stores a and b differ at most in the payload of the slot at position
\* h.index of store s.
SamePayloadFrame(a, b, s, h) ==
    /\ Len(a) = Len(b)
    /\ \A t \in 1..Len(a) :
         /\ a[t].alloc_idx = b[t].alloc_idx
         /\ Len(a[t].values) = Len(b[t].values)
         /\ \A i \in 1..Len(a[t].values) :
              /\ a[t].values[i].alloc_idx = b[t].values[i].alloc_idx
              /\ (t # s \/ i # h.index + 1)
                   => a[t].values[i].value = b[t].values[i].value

\* C16: set, take and get_mut with a valid handle change at most the payload
\* of the slot at h.index: every stamp, every other payload, the lengths and
\* alloc_idx stay; get changes nothing; a set, take, get or get_mut that
\* returns StoreMutated or WrongStore leaves every store as it was, so a
\* rejected set does not store its value.
C16_SlotMutationFrame ==
    /\ \A s \in StoreIds : \A h \in Handles :
         LET st == stores[s]
             tk == StoreTake(st, h)
         IN  /\ Rejected(tk.res) => tk.store = st
             /\ ~Rejected(tk.res) =>
                  tk.store = [st EXCEPT !.values[h.index + 1].value = None]
             /\ \A v \in Vals :
                  LET r == StoreSet(st, h, v)
                  IN  /\ Rejected(r.res) => r.store = st
                      /\ ~Rejected(r.res) =>
                           r.store = [st EXCEPT !.values[h.index + 1].value = v]
    /\ ret.op \in {"set", "take", "get_mut"} =>
         IF Valid(pre[ret.s], ret.h)
         THEN SamePayloadFrame(pre, stores, ret.s, ret.h)
         ELSE Rejected(ret.res)
    /\ ret.op = "get" => stores = pre
    /\ (ret.op \in {"set", "take", "get", "get_mut"} /\ Rejected(ret.res))
         => stores = pre

\* C16 witness: set(h, v) was called with a stale handle whose index is in
\* bounds again; it returned StoreMutated and the slot there does not hold v.
C16_Witness ==
    \E e \in issued :
        /\ e.stale
        /\ ret.op = "set" /\ ret.s = e.owner /\ ret.h = e.h
        /\ ret.res = Err("StoreMutated")
        /\ InBounds(stores[e.owner], e.h)
        /\ SlotAt(stores[e.owner], e.h).value # ret.v
        /\ stores = pre

\* C18: in every store the stamp of slot i is alloc_idx - length + i: each
\* stamp is followed by its successor in the next slot and the last stamp's
\* successor is the live alloc_idx; so stamps grow strictly with position,
\* are pairwise distinct and all below the live alloc_idx, and no handle the
\* store issued carries the live alloc_idx as its stamp.
C18_StampLayout ==
    \A s \in StoreIds :
        LET st == stores[s]
            n == Len(st.values)
        IN  /\ \A i \in 1..n :
                 IsSucc(st.values[i].alloc_idx,
                        IF i = n THEN st.alloc_idx
                        ELSE st.values[i + 1].alloc_idx)
            /\ \A i \in 1..n :
                 /\ Less(st.values[i].alloc_idx, st.alloc_idx)
                 /\ \A j \in 1..n :
                      i < j => Less(st.values[i].alloc_idx,
                                    st.values[j].alloc_idx)
            /\ \A e \in issued :
                 e.owner = s =>
                    /\ Less(e.h.alloc_idx, st.alloc_idx)
                    /\ CheckHandle(e.h, st.alloc_idx).kind # "Ok"

\* C18 witness: after a clear() a store was filled again, so the stamp of its
\* first slot is no longer the counter value the store started with, and the
\* last call was the insert or alloc that pushed a slot.
C18_Witness ==
    \E s \in StoreIds :
        /\ Len(stores[s].values) >= 1
        /\ stores[s].values[1].alloc_idx # FromBeBytes(tags[s])
        /\ ret.op \in {"insert", "alloc"} /\ ret.s = s
        /\ \E e \in issued : e.owner = s /\ e.stale

\* C12: between two stores with the same instance tag, a handle issued by one
\* and presented to the other is rejected with StoreMutated, not WrongStore,
\* by get, get_mut, set and take when it is not valid there, and is taken as
\* valid when its index is in bounds and the slot's stamp equals its stamp:
\* get returns that slot's contents, set and take change it.
C12_TagCollision ==
    \A e \in issued : \A b \in StoreIds :
        (b # e.owner /\ tags[b] = tags[e.owner]) =>
            LET st == stores[b]
            IN  IF Valid(st, e.h)
                THEN /\ StoreGet(st, e.h)
                          = (IF SlotAt(st, e.h).value = None
                             THEN Err("SlotEmpty")
                             ELSE Ok(SlotAt(st, e.h).value))
                     /\ StoreTake(st, e.h).store = WriteSlot(st, e.h, None)
                     /\ \A v \in Vals :
                          /\ StoreSet(st, e.h, v).res
                               = Ok(SlotAt(st, e.h).value)
                          /\ StoreSet(st, e.h, v).store = WriteSlot(st, e.h, v)
                ELSE /\ StoreGet(st, e.h) = Err("StoreMutated")
                     /\ StoreGetMut(st, e.h) = Err("StoreMutated")
                     /\ StoreTake(st, e.h).res = Err("StoreMutated")
                     /\ \A v \in Vals :
                          StoreSet(st, e.h, v).res = Err("StoreMutated")

\* C12 witness: the instance counter wrapped, two stores carry the same tag,
\* and set on one of them with a handle the other issued returned Ok and
\* replaced a payload there.
C12_Witness ==
    \E e \in issued :
        /\ ret.op = "set" /\ ret.h = e.h /\ ret.s # e.owner
        /\ tags[ret.s] = tags[e.owner]
        /\ ret.res.kind = "Ok" /\ ret.res.val # ret.v
        /\ stores # pre
        /\ StoreGet(stores[ret.s], e.h) = Ok(ret.v)

\* C14: whatever handle is presented (the store's own, a stale one, one of
\* another store, one whose stamp is the store's live alloc_idx), when its
\* index is at or past the length of the store, get, get_mut, set and take
\* return StoreMutated or WrongStore and the store is left as it was.
C14_NoFalseValidityOutOfRange ==
    /\ \A s \in StoreIds : \A h \in Handles :
         ~InBounds(stores[s], h) =>
            /\ Rejected(StoreGet(stores[s], h))
            /\ Rejected(StoreGetMut(stores[s], h))
            /\ Rejected(StoreTake(stores[s], h).res)
            /\ StoreTake(stores[s], h).store = stores[s]
            /\ \A v \in Vals :
                 /\ Rejected(StoreSet(stores[s], h, v).res)
                 /\ StoreSet(stores[s], h, v).store = stores[s]
    /\ (/\ ret.op \in {"get", "get_mut", "set", "take"}
        /\ ~InBounds(pre[ret.s], ret.h))
         => (Rejected(ret.res) /\ stores = pre)

\* C14 witness: get was called with a handle whose stamp is the live
\* alloc_idx of the store and whose index is the length of the store, and
\* returned StoreMutated.
C14_Witness ==
    /\ ret.op = "get"
    /\ ret.h.index = Len(stores[ret.s].values)
    /\ ret.h.alloc_idx = stores[ret.s].alloc_idx
    /\ ret.res = Err("StoreMutated")
    /\ stores = pre

\* C17: in every state the top byte of a store's alloc_idx, of the stamp of
\* each of its slots and of the stamp of each handle it issued is the tag
\* the store fetched from INSTANCE_COUNT in Store::new: the increment in
\* insert and alloc never carries into that byte, however many allocations
\* were made.
C17_TagByteStability ==
    /\ \A s \in StoreIds :
         /\ TopByte(stores[s].alloc_idx) = tags[s]
         /\ \A i \in 1..Len(stores[s].values) :
              TopByte(stores[s].values[i].alloc_idx) = tags[s]
    /\ \A e \in issued : TopByte(e.h.alloc_idx) = tags[e.owner]

\* C15: in every interleaving of the Store::new calls of several threads,
\* each call does one atomic fetch-and-add on the 8-bit counter: the k-th
\* fetch gets (k - 1) mod 256, also when read from the thread that made it;
\* the counter stands at the number of fetches mod 256; no construction
\* among the 255 before the latest one got the latest one's tag (every run
\* of 256 consecutive constructions ends as the latest one in some state);
\* two calls in flight fewer than 256 fetches apart hold different tags; and
\* the store a call returns carries a fetched tag and nothing else.
C15_ConcurrentConstruction ==
    /\ INSTANCE_COUNT = Len(log) % (ByteMax + 1)
    /\ \A k \in 1..Len(log) : log[k] = (k - 1) % (ByteMax + 1)
    /\ \A i \in 1..(Len(log) - 1) :
         Len(log) - i <= ByteMax => log[i] # log[Len(log)]
    /\ \A t \in Threads :
         th[t].pc = "fetched" =>
            /\ th[t].k \in 1..Len(log)
            /\ th[t].c = log[th[t].k]
            /\ th[t].c = (th[t].k - 1) % (ByteMax + 1)
            /\ \A u \in Threads :
                 (u # t /\ th[u].pc = "fetched") =>
                    /\ th[u].k # th[t].k
                    /\ (th[u].k - th[t].k \in 1..ByteMax)
                         => th[u].c # th[t].c
    /\ ret.op = "new" =>
         /\ ret.res.val.values = <<>>
         /\ ret.res.val.alloc_idx = FromBeBytes(TopByte(ret.res.val.alloc_idx))
         /\ \E k \in 1..Len(log) : log[k] = TopByte(ret.res.val.alloc_idx)

\* C15 witness: two calls are in flight at once, 256 fetches apart: the
\* first construction of the process, still holding tag 0, and the 257th,
\* which got tag 0 again after the counter wrapped.
C15_Witness ==
    /\ \E t \in Threads : \E u \in Threads :
         /\ th[t] = [pc |-> "fetched", c |-> 0, k |-> 1]
         /\ th[u] = [pc |-> "fetched", c |-> 0, k |-> ByteMax + 2]
    /\ ret.op = "new"

====
